---------------------------- MODULE Spec2Model ----------------------------
(***************************************************************************)
(* A model of the glTF / GLB decoder (decoder.go) and of the default-aware *)
(* JSON codecs of the document model (struct.go).                          *)
(*                                                                         *)
(* Strings are sequences of one-character strings, so that prefix tests,   *)
(* substring search and slicing are computed as the code computes them.    *)
(***************************************************************************)
EXTENDS Integers, Sequences, FiniteSets, TLC

VARIABLES
    input,      \* the bytes handed to NewDecoder, described by their layout
    pc,         \* position of Decoder.Decode
    pos,        \* bytes consumed so far from d.r (the bufio.Reader)
    isBinary,   \* decodeDocument's first result
    doc,        \* doc.Buffers: sequence of [URI, ByteLength, Data]
    idx,        \* loop variable i of Decode (1-based here)
    err,        \* the error Decode returns
    cbCalls,    \* URIs the resource callback was invoked with, in order
    cbResults,  \* what the callback returned: [buffer, kind, data], in order
    chunkReads, \* number of calls of Decoder.chunkHeader
    cam,        \* the Camera handed to Camera.MarshalJSON
    camOut,     \* what Camera.MarshalJSON returned: [pc, out, err]
    extensions, \* the package-level registry: key -> factory, "none" if absent
    extIn,      \* the data handed to Extensions.UnmarshalJSON and *ext before;
                \* under SpecRace, each goroutine's call
    extOut,     \* what Extensions.UnmarshalJSON left: [pc, ext, err];
                \* under SpecRace, each goroutine's position
    nodeIn,     \* the JSON text handed to Node.UnmarshalJSON
    node        \* the results of the Node codec, or of the
                \* PBRMetallicRoughness codec: [pc, n, err, out, n2, err2]

decVars == <<input, pc, pos, isBinary, doc, idx, err, cbCalls, cbResults,
            chunkReads>>

camVars == <<cam, camOut>>

extVars == <<extensions, extIn, extOut>>

nodeVars == <<nodeIn, node>>

vars == <<decVars, camVars, extVars, nodeVars>>

---------------------------------------------------------------------------
(* Generic helpers on sequences.                                           *)

Min(a, b) == IF a < b THEN a ELSE b

\* strings.HasPrefix
HasPrefix(s, p) == Len(s) >= Len(p) /\ SubSeq(s, 1, Len(p)) = p

\* strings.Contains / bytes.Index > = 0
Contains(s, p) ==
    \E k \in 0..(Len(s) - Len(p)) : SubSeq(s, k + 1, k + Len(p)) = p

Zeros(n) == [k \in 1..n |-> 0]

---------------------------------------------------------------------------
(* Program constants.                                                      *)

glbHeaderMagic == 1179937895    \* 0x46546C67
glbChunkJSON == 1313821514      \* 0x4E4F534A
glbChunkBIN == 5130562          \* 0x004E4942
\* unsafe.Sizeof(glbHeader): magic, version, length + JSON chunk length, type
HeaderSize == 20
\* binary.Size(chunkHeader): length, type
ChunkHeaderSize == 8

\* A uint32 is kept as its two 16-bit halves [hi, lo], so that the fields of
\* the header range over all 32 bits and their sum wraps at 2^32.
Half16 == 65536

U32(n) == [hi |-> n \div Half16, lo |-> n % Half16]

U32Max == [hi |-> Half16 - 1, lo |-> Half16 - 1]

U32Add(a, b) ==
    LET lo == a.lo + b.lo
        hi == a.hi + b.hi + lo \div Half16
    IN  [hi |-> hi % Half16, lo |-> lo % Half16]

\* a - b for a >= b
U32Sub(a, b) ==
    LET borrow == IF a.lo < b.lo THEN 1 ELSE 0
    IN  [hi |-> a.hi - b.hi - borrow, lo |-> a.lo + borrow * Half16 - b.lo]

U32Gt(a, b) == a.hi > b.hi \/ (a.hi = b.hi /\ a.lo > b.lo)

\* min(a, n) for a small natural n
U32MinNat(a, n) == IF U32Gt(a, U32(n)) THEN n ELSE a.hi * Half16 + a.lo

\* "data:application/octet-stream;base64"
mimetypeApplicationOctet ==
    << "d","a","t","a",":","a","p","p","l","i","c","a","t","i","o","n","/",
       "o","c","t","e","t","-","s","t","r","e","a","m",";","b","a","s","e",
       "6","4" >>

\* The quotas the decoder of the model is configured with (SetQuotas).
QuotaMaxBufferCount == 2
QuotaMaxMemoryAllocation == 40

---------------------------------------------------------------------------
(* encoding/base64, StdEncoding.DecodeString, as marshalData uses it.      *)

B64Alphabet ==
    << "A","B","C","D","E","F","G","H","I","J","K","L","M","N","O","P","Q",
       "R","S","T","U","V","W","X","Y","Z","a","b","c","d","e","f","g","h",
       "i","j","k","l","m","n","o","p","q","r","s","t","u","v","w","x","y",
       "z","0","1","2","3","4","5","6","7","8","9","+","/" >>

IsB64(c) == \E k \in 1..64 : B64Alphabet[k] = c

B64Val(c) == (CHOOSE k \in 1..64 : B64Alphabet[k] = c) - 1

\* The bytes of a quantum of n+1 characters (n = 1, 2 or 3 bytes).
B64Quantum(q, n) ==
    LET v1 == B64Val(q[1])
        v2 == B64Val(q[2])
        v3 == IF n >= 2 THEN B64Val(q[3]) ELSE 0
        v4 == IF n >= 3 THEN B64Val(q[4]) ELSE 0
        all == << (v1 * 4 + v2 \div 16) % 256,
                  ((v2 % 16) * 16 + v3 \div 4) % 256,
                  ((v3 % 4) * 64 + v4) % 256 >>
    IN  SubSeq(all, 1, n)

\* Decoding of a string without line breaks: quanta of four characters,
\* padding only in the last quantum, nothing after the padding.  The result
\* is the bytes decoded before the error, and whether there was no error.
RECURSIVE B64DecodeQuanta(_)
B64DecodeQuanta(s) ==
    IF Len(s) = 0 THEN [data |-> <<>>, ok |-> TRUE]
    ELSE IF Len(s) < 4 THEN [data |-> <<>>, ok |-> FALSE]
    ELSE LET q == SubSeq(s, 1, 4)
             rest == SubSeq(s, 5, Len(s))
         IN  IF \A k \in 1..4 : IsB64(q[k])
             THEN LET r == B64DecodeQuanta(rest)
                  IN  [data |-> B64Quantum(q, 3) \o r.data, ok |-> r.ok]
             ELSE IF IsB64(q[1]) /\ IsB64(q[2]) /\ IsB64(q[3]) /\ q[4] = "="
             THEN [data |-> B64Quantum(q, 2), ok |-> rest = <<>>]
             ELSE IF IsB64(q[1]) /\ IsB64(q[2]) /\ q[3] = "=" /\ q[4] = "="
             THEN [data |-> B64Quantum(q, 1), ok |-> rest = <<>>]
             ELSE [data |-> <<>>, ok |-> FALSE]

\* DecodeString ignores "\r" and "\n" wherever they stand.
B64DecodeString(s) ==
    B64DecodeQuanta(SelectSeq(s, LAMBDA c : c \notin {"\r", "\n"}))

---------------------------------------------------------------------------
(* Buffer (struct.go) and the checks of decoder.go on a buffer.            *)

\* Buffer.IsEmbeddedResource
IsEmbeddedResource(uri) == HasPrefix(uri, mimetypeApplicationOctet)

\* Buffer.marshalData: [data, err, panic].  b.URI[startPos:] panics when
\* startPos is beyond the end of the URI.
marshalData(uri) ==
    IF ~IsEmbeddedResource(uri)
    THEN [data |-> <<>>, err |-> "nil", panic |-> FALSE]
    ELSE LET startPos == Len(mimetypeApplicationOctet) + 1
         IN  IF startPos > Len(uri)
             THEN [data |-> <<>>, err |-> "nil", panic |-> TRUE]
             ELSE LET r == B64DecodeString(SubSeq(uri, startPos + 1, Len(uri)))
                  IN  IF Len(r.data) = 0 \/ ~r.ok
                      THEN [data |-> <<>>,
                            err |-> IF r.ok THEN "nil" ELSE "base64",
                            panic |-> FALSE]
                      ELSE [data |-> r.data, err |-> "nil", panic |-> FALSE]

\* Decoder.validateBuffer: the error it returns
validateBuffer(byteLength) ==
    IF byteLength = 0 THEN "byteLength0"
    ELSE IF byteLength > QuotaMaxMemoryAllocation THEN "quota_mem"
    ELSE "nil"

\* validateBufferURI without the test for a parent-directory segment
validateBufferURI_NoParentTest(uri) ==
    IF uri = <<>> \/ HasPrefix(uri, <<"/">>) \/ HasPrefix(uri, <<"\\">>)
    THEN "bad_uri"
    ELSE "nil"

\* validateBufferURI: the error it returns
validateBufferURI(uri) ==
    IF uri = <<>> \/ Contains(uri, <<".", ".">>)
       \/ HasPrefix(uri, <<"/">>) \/ HasPrefix(uri, <<"\\">>)
    THEN "bad_uri"
    ELSE "nil"

\* The count check with the comparison off by one
BufferCountExceeded_OffByOne(n) == n > QuotaMaxBufferCount + 1

\* The count check of decodeDocument (line 111) and of Decode (line 74)
BufferCountExceeded(n) == n > QuotaMaxBufferCount

---------------------------------------------------------------------------
(* The inputs of the decoder.                                              *)
(*                                                                         *)
(* An input is described by its layout: whether 20 bytes can be peeked,   *)
(* the header fields as the bytes declare them, the JSON value (jsonLen   *)
(* bytes, followed by pad bytes of white space), the buffers the JSON     *)
(* value declares, and the binary chunk that may follow: its header as    *)
(* declared and the payload bytes actually present.                        *)

MaxPayload == 2
MaxPad == 1
JsonLen == 2

ByteValues == {7, 9}

RECURSIVE SeqsUpTo(_, _)
SeqsUpTo(S, n) ==
    IF n = 0 THEN {<<>>}
    ELSE LET shorter == SeqsUpTo(S, n - 1)
         IN  shorter \cup {Append(q, x) : q \in shorter, x \in S}

Payloads == SeqsUpTo(ByteValues, MaxPayload)

uriA == <<"a">>
uriB == <<"b">>
uriParent == <<".", ".", "/", "a">>
uriInnerParent == <<"a", "/", ".", ".">>
uriAbsolute == <<"/", "a">>
uriBackslash == <<"\\", "a">>
uriMarkerOnly == mimetypeApplicationOctet
uriEmbeddedEmpty == mimetypeApplicationOctet \o <<",">>
uriEmbeddedOne == mimetypeApplicationOctet \o <<",", "Q", "Q", "=", "=">>
uriEmbeddedCorrupt == mimetypeApplicationOctet \o <<",", "Q">>

URIs ==
    { <<>>, uriA, uriB, uriParent, uriInnerParent, uriAbsolute, uriBackslash,
      uriMarkerOnly, uriEmbeddedEmpty, uriEmbeddedOne, uriEmbeddedCorrupt }

Buf(u, n) == [URI |-> u, ByteLength |-> n]

BufferChoices ==
    { Buf(u, 1) : u \in URIs }
    \cup { Buf(uriA, n) : n \in {0, MaxPayload, QuotaMaxMemoryAllocation + 1} }
    \cup { Buf(uriParent, 0), Buf(uriEmbeddedOne, MaxPayload) }

BufferLists == SeqsUpTo(BufferChoices, QuotaMaxBufferCount + 1)

LayoutLen(in) ==
    (IF in.magic = glbHeaderMagic THEN HeaderSize ELSE 0) + in.jsonLen + in.pad
    + (IF in.hasBin THEN ChunkHeaderSize + Len(in.payload) ELSE 0)

\* A plain JSON text: no binary magic, or too short for the peek.
JSONInput(peek, ok, bufs) ==
    [ peekOK |-> peek, magic |-> 0, length |-> U32(0), chunkLength |-> U32(0),
      chunkType |-> 0, jsonLen |-> IF peek THEN HeaderSize ELSE JsonLen,
      pad |-> 0, jsonOK |-> ok,
      buffers |-> bufs, hasBin |-> FALSE, binType |-> 0, binLength |-> 0,
      payload |-> <<>> ]

GLBInput(len, clen, ctype, p, ok, bufs, bin, btype, blen, data) ==
    [ peekOK |-> TRUE, magic |-> glbHeaderMagic, length |-> len,
      chunkLength |-> clen, chunkType |-> ctype, jsonLen |-> JsonLen,
      pad |-> p, jsonOK |-> ok, buffers |-> bufs, hasBin |-> bin,
      binType |-> btype, binLength |-> blen, payload |-> data ]

\* A container whose header fields describe its layout.
WellFormedGLB(p, bufs, bin, data) ==
    GLBInput(U32(HeaderSize + JsonLen + p
                     + (IF bin THEN ChunkHeaderSize + Len(data) ELSE 0)),
             U32(JsonLen + p), glbChunkJSON, p, TRUE, bufs, bin,
             IF bin THEN glbChunkBIN ELSE 0, Len(data), data)

\* Inputs that vary the buffers: every kind of URI, in plain JSON and in
\* well-formed containers.
IsInputURI(in) ==
    \E bufs \in BufferLists :
        \/ \E peek \in BOOLEAN, ok \in BOOLEAN : in = JSONInput(peek, ok, bufs)
        \/ in = WellFormedGLB(0, bufs, FALSE, <<>>)
        \/ \E data \in {q \in Payloads : Len(q) = MaxPayload} :
               in = WellFormedGLB(0, bufs, TRUE, data)

\* Inputs that vary the container: header fields, padding, binary chunk.
GLBFirstBuffers ==
    { Buf(u, n) : u \in {<<>>, uriA},
                  n \in (0..(MaxPayload + 1)) \cup {QuotaMaxMemoryAllocation + 1} }

GLBBufferLists ==
    {<<>>} \cup { <<b>> : b \in GLBFirstBuffers }
    \cup { <<b, Buf(u, 1)>> : b \in GLBFirstBuffers, u \in {uriA, uriParent} }

\* The binary chunk that follows the JSON chunk, if any: the type and length
\* its header declares and the payload bytes present.
BinChunks ==
    { [has |-> FALSE, type |-> 0, len |-> 0, data |-> <<>>] }
    \cup { [has |-> TRUE, type |-> t, len |-> n, data |-> d] :
               t \in {glbChunkBIN, glbChunkJSON}, n \in 0..MaxPayload,
               d \in Payloads }

\* The header fields, each right or wrong in one way: the total length
\* (as laid out, too small for the JSON chunk, beyond the memory quota), the
\* JSON chunk length (as laid out, shorter than the JSON value, or so large
\* that adding the header size wraps around 2^32) and the chunk type.
HeaderKinds ==
    { <<"exact", "exact", glbChunkJSON>>, <<"small", "exact", glbChunkJSON>>,
      <<"quota", "exact", glbChunkJSON>>, <<"exact", "short", glbChunkJSON>>,
      <<"exact", "wrap", glbChunkJSON>>, <<"exact", "exact", glbChunkBIN>> }

GLBOf(hk, p, bufs, bin) ==
    LET laidOut == HeaderSize + JsonLen + p
                   + (IF bin.has THEN ChunkHeaderSize + Len(bin.data) ELSE 0)
        len == CASE hk[1] = "exact" -> laidOut
                 [] hk[1] = "small" -> HeaderSize - 1
                 [] hk[1] = "quota" -> QuotaMaxMemoryAllocation + 1
        clen == CASE hk[2] = "exact" -> JsonLen + p
                  [] hk[2] = "short" -> JsonLen - 1
                  [] hk[2] = "wrap" -> 0
        wrapped == U32Add(U32Sub(U32Max, U32(HeaderSize)), U32(JsonLen + p + 1))
    IN  GLBInput(U32(len), IF hk[2] = "wrap" THEN wrapped ELSE U32(clen), hk[3], p, TRUE, bufs, bin.has, bin.type, bin.len,
                 bin.data)

IsInputGLB(in) ==
    \E hk \in HeaderKinds, p \in 0..MaxPad, bufs \in GLBBufferLists,
       bin \in BinChunks :
        in = GLBOf(hk, p, bufs, bin)

---------------------------------------------------------------------------
(* Decoder.Decode, one action per call it makes.                           *)

IsGLB(in) == in.peekOK /\ in.magic = glbHeaderMagic

\* Offset of the binary chunk's header in the input
BinStart(in) == HeaderSize + in.jsonLen + in.pad

\* Bytes of the input not yet consumed
Remaining(in, p) == LayoutLen(in) - p

\* Decoder.validateGLBHeader: the error it returns
validateGLBHeader(in) ==
    IF U32Gt(in.length, U32(QuotaMaxMemoryAllocation)) THEN "quota_mem"
    ELSE IF in.chunkType # glbChunkJSON
            \/ U32Gt(U32Add(in.chunkLength, U32(HeaderSize)), in.length)
    THEN "glb_header"
    ELSE "nil"

\* Decode going on to the next buffer whatever the error
AfterBuffer_Continue(e) == "buffers"

\* What Decode does after a buffer was resolved with error e
AfterBuffer(e) == IF e = "nil" THEN "buffers" ELSE "done"

\* Decoder.readGLBHeader and the error return of decodeDocument (lines 94-97)
ReadGLBHeader ==
    /\ pc = "start"
    /\ IF IsGLB(input)
       THEN /\ pos' = HeaderSize
            /\ LET e == validateGLBHeader(input)
               IN  IF e = "nil"
                   THEN pc' = "json" /\ err' = err
                   ELSE pc' = "done" /\ err' = e
       ELSE pos' = pos /\ pc' = "json" /\ err' = err
    /\ UNCHANGED <<input, isBinary, doc, idx, cbCalls, cbResults, chunkReads,
                   camVars, extVars, nodeVars>>

\* The rest of decodeDocument (lines 98-115) and the count check of Decode
\* (lines 74-80).  The JSON decoder reads pieces until the value is complete:
\* it consumes at least the value and at most what the limit and the input
\* allow, depending on how the reads are split.
DecodeDocument ==
    /\ pc = "json"
    /\ isBinary' = IsGLB(input)
    /\ LET most == IF IsGLB(input)
                   THEN U32MinNat(input.chunkLength, Remaining(input, pos))
                   ELSE Remaining(input, pos)
       IN  IF ~input.jsonOK \/ most < input.jsonLen
           THEN /\ pc' = "done"
                /\ err' = "json"
                /\ UNCHANGED <<pos, doc, idx>>
           ELSE /\ \E c \in input.jsonLen..most : pos' = pos + c
                /\ doc' = [k \in 1..Len(input.buffers) |->
                              [URI |-> input.buffers[k].URI,
                               ByteLength |-> input.buffers[k].ByteLength,
                               Data |-> <<>>]]
                /\ IF BufferCountExceeded(Len(input.buffers))
                   THEN pc' = "done" /\ err' = "quota_count" /\ idx' = idx
                   ELSE /\ err' = err
                        /\ idx' = 1
                        /\ pc' = IF IsGLB(input) /\ Len(input.buffers) > 0
                                 THEN "binary" ELSE "buffers"
    /\ UNCHANGED <<input, cbCalls, cbResults, chunkReads, camVars, extVars,
                   nodeVars>>

\* The chunk header binary.Read finds at offset p.  Off the start of the
\* binary chunk the eight bytes are white space, header bytes out of step or
\* payload bytes: with the byte values of the model, no chunk type.
ChunkHeaderAt(in, p) ==
    IF in.hasBin /\ p = BinStart(in)
    THEN [Length |-> in.binLength, Type |-> in.binType]
    ELSE [Length |-> 0, Type |-> -1]

\* The numbers of bytes one Read may deliver into a slice of `want` bytes when
\* `avail` bytes are left (avail > 0): bufio.Reader.Read and io.Reader take the
\* bytes from at most one read of the source.
ReadCounts(want, avail) == 1..Min(want, avail)

\* make([]uint8, size) after a Read that delivered the first n bytes of src
ReadInto(size, src, n) == SubSeq(src, 1, n) \o Zeros(size - n)

\* Decoder.decodeBinaryBuffer on doc.Buffers[0] (lines 79-84, 173-187)
DecodeBinaryBuffer ==
    /\ pc = "binary"
    /\ LET b == doc[1]
           e == validateBuffer(b.ByteLength)
           header == ChunkHeaderAt(input, pos)
           body == pos + ChunkHeaderSize
       IN  IF e # "nil"
           THEN /\ pc' = AfterBuffer(e) /\ err' = e
                /\ UNCHANGED <<pos, doc, idx, chunkReads>>
           ELSE /\ chunkReads' = chunkReads + 1
                /\ IF Remaining(input, pos) < ChunkHeaderSize
                   THEN /\ pc' = AfterBuffer("io") /\ err' = "io"
                        /\ pos' = LayoutLen(input)
                        /\ UNCHANGED <<doc, idx>>
                   ELSE IF header.Type # glbChunkBIN
                           \/ header.Length < b.ByteLength
                   THEN /\ pc' = AfterBuffer("bin_header")
                        /\ err' = "bin_header"
                        /\ pos' = body
                        /\ UNCHANGED <<doc, idx>>
                   ELSE IF Remaining(input, body) = 0
                   THEN /\ pc' = AfterBuffer("io") /\ err' = "io"
                        /\ pos' = body
                        /\ doc' = [doc EXCEPT ![1].Data = Zeros(b.ByteLength)]
                        /\ idx' = idx
                   ELSE \E n \in ReadCounts(b.ByteLength,
                                            Remaining(input, body)) :
                        /\ pc' = AfterBuffer("nil") /\ err' = err
                        /\ pos' = body + n
                        /\ doc' = [doc EXCEPT ![1].Data =
                                      ReadInto(b.ByteLength, input.payload, n)]
                        /\ idx' = idx + 1
    /\ UNCHANGED <<input, isBinary, cbCalls, cbResults, camVars, extVars,
                   nodeVars>>

\* What the resource callback may return: (nil, nil), an error, or a stream
\* holding some bytes.
CallbackResults ==
    { [kind |-> "skip", data |-> <<>>], [kind |-> "error", data |-> <<>>] }
    \cup { [kind |-> "stream", data |-> d] : d \in SeqsUpTo(ByteValues, MaxPayload) }

\* What one Read of a stream holding `data` may return into `want` bytes:
\* some of the bytes, the last ones possibly together with io.EOF.
StreamReads(want, data) ==
    IF Len(data) = 0 THEN { [n |-> 0, err |-> "io"] }
    ELSE { [n |-> k, err |-> "nil"] : k \in ReadCounts(want, Len(data)) }
         \cup { [n |-> k, err |-> "io"] : k \in {Len(data)} \cap (1..want) }

\* Decoder.decodeBuffer on doc.Buffers[idx - 1] (lines 85-89, 151-171)
DecodeBuffer ==
    /\ pc = "buffers"
    /\ idx <= Len(doc)
    /\ LET b == doc[idx]
           e == validateBuffer(b.ByteLength)
           m == marshalData(b.URI)
           u == validateBufferURI(b.URI)
       IN  IF e # "nil"
           THEN /\ pc' = AfterBuffer(e) /\ err' = e
                /\ UNCHANGED <<doc, idx, cbCalls, cbResults>>
           ELSE IF b.URI = <<>>
           THEN /\ pc' = AfterBuffer("no_uri") /\ err' = "no_uri"
                /\ UNCHANGED <<doc, idx, cbCalls, cbResults>>
           ELSE IF IsEmbeddedResource(b.URI)
           THEN IF m.panic
                THEN /\ pc' = "panic"
                     /\ UNCHANGED <<doc, idx, cbCalls, cbResults, err>>
                ELSE /\ doc' = [doc EXCEPT ![idx].Data = m.data]
                     /\ pc' = AfterBuffer(m.err)
                     /\ err' = IF m.err = "nil" THEN err ELSE m.err
                     /\ idx' = IF m.err = "nil" THEN idx + 1 ELSE idx
                     /\ UNCHANGED <<cbCalls, cbResults>>
           ELSE IF u # "nil"
           THEN /\ pc' = AfterBuffer(u) /\ err' = u
                /\ UNCHANGED <<doc, idx, cbCalls, cbResults>>
           ELSE /\ cbCalls' = Append(cbCalls, b.URI)
                /\ \E r \in CallbackResults :
                      /\ cbResults' = Append(cbResults,
                                             [buffer |-> idx, kind |-> r.kind,
                                              data |-> r.data])
                      /\ CASE r.kind = "skip" ->
                             /\ pc' = AfterBuffer("nil") /\ err' = err
                             /\ doc' = doc /\ idx' = idx + 1
                        [] r.kind = "error" ->
                             /\ pc' = AfterBuffer("cb") /\ err' = "cb"
                             /\ doc' = doc /\ idx' = idx
                        [] r.kind = "stream" ->
                             \E rd \in StreamReads(b.ByteLength, r.data) :
                                /\ doc' = [doc EXCEPT ![idx].Data =
                                              ReadInto(b.ByteLength, r.data, rd.n)]
                                /\ pc' = AfterBuffer(rd.err)
                                /\ err' = IF rd.err = "nil" THEN err ELSE rd.err
                                /\ idx' = IF rd.err = "nil" THEN idx + 1 ELSE idx
    /\ UNCHANGED <<input, pos, isBinary, chunkReads, camVars, extVars, nodeVars>>

\* The end of the loop of Decode (lines 85, 90)
Finish ==
    /\ pc = "buffers"
    /\ idx > Len(doc)
    /\ pc' = "done"
    /\ err' = "nil"
    /\ UNCHANGED <<input, pos, isBinary, doc, idx, cbCalls, cbResults,
                   chunkReads, camVars, extVars, nodeVars>>

\* The state of each part of the model while another part is being checked
DecIdle ==
    /\ input = <<>>
    /\ pc = "idle"
    /\ pos = 0
    /\ isBinary = FALSE
    /\ doc = <<>>
    /\ idx = 0
    /\ err = "none"
    /\ cbCalls = <<>>
    /\ cbResults = <<>>
    /\ chunkReads = 0

CamIdle == cam = <<>> /\ camOut = <<>>

ExtIdle == extensions = <<>> /\ extIn = <<>> /\ extOut = <<>>

NodeIdle == nodeIn = <<>> /\ node = <<>>

DecInit ==
    /\ pc = "start"
    /\ pos = 0
    /\ isBinary = FALSE
    /\ doc = <<>>
    /\ idx = 0
    /\ err = "none"
    /\ cbCalls = <<>>
    /\ cbResults = <<>>
    /\ chunkReads = 0

Init == IsInputURI(input) /\ DecInit /\ CamIdle /\ ExtIdle /\ NodeIdle

InitGLB == IsInputGLB(input) /\ DecInit /\ CamIdle /\ ExtIdle /\ NodeIdle

Next ==
    \/ ReadGLBHeader
    \/ DecodeDocument
    \/ DecodeBinaryBuffer
    \/ DecodeBuffer
    \/ Finish

Spec == Init /\ [][Next]_vars

SpecGLB == InitGLB /\ [][Next]_vars

---------------------------------------------------------------------------
(* Properties of Decoder.Decode.                                           *)

\* Buffer k (1-based) of the parsed document is resolved from its URI by
\* decodeBuffer, not from the binary chunk.
ResolvedByURI(k) == ~(isBinary /\ k = 1)

Called(uri) == \E c \in 1..Len(cbCalls) : cbCalls[c] = uri

\* A URI with a parent-directory segment or a leading path separator
UnsafeURI(uri) ==
    \/ \E k \in 1..(Len(uri) - 1) : uri[k] = "." /\ uri[k + 1] = "."
    \/ Len(uri) > 0 /\ uri[1] \in {"/", "\\"}

\* C1: once the document is parsed with more buffers than MaxBufferCount,
\* Decode has returned the quota error, no buffer's Data is populated, no
\* chunk header was read and the resource callback was never invoked.
C1_BufferCountQuota ==
    Len(doc) > QuotaMaxBufferCount =>
        /\ pc = "done"
        /\ err = "quota_count"
        /\ \A k \in 1..Len(doc) : doc[k].Data = <<>>
        /\ chunkReads = 0
        /\ cbCalls = <<>>

C1_Witness ==
    /\ Len(doc) > QuotaMaxBufferCount
    /\ err = "quota_count"
    /\ isBinary
    /\ input.hasBin
    /\ \E k \in 1..Len(doc) : doc[k].URI = uriA /\ doc[k].ByteLength = 1

\* C2 as stated, in the cases most favourable to it (Decode got as far as the
\* buffer and the buffer's byteLength is valid): for every non-embedded
\* buffer with an unsafe URI, Decode fails with the URI-validation error,
\* the callback is never invoked with that URI and the buffer's Data stays
\* empty.
C2_UnsafeURIAlwaysRejected ==
    \A k \in 1..Len(doc) :
        (/\ ~IsEmbeddedResource(doc[k].URI)
         /\ UnsafeURI(doc[k].URI)
         /\ doc[k].ByteLength \in 1..QuotaMaxMemoryAllocation
         /\ pc = "done"
         /\ idx >= k) =>
            /\ err = "bad_uri"
            /\ ~Called(doc[k].URI)
            /\ doc[k].Data = <<>>

\* C2 amended: for every non-embedded buffer with an unsafe URI the callback
\* is never invoked with that URI; if the buffer is resolved from its URI
\* (it is not buffers[0] of a binary container) its Data stays empty and
\* Decode does not succeed, and when it is the buffer Decode stopped at and
\* its byteLength is nonzero and within the memory quota, the error is the
\* URI-validation error.
C2_UnsafeURIRejected ==
    \A k \in 1..Len(doc) :
        (~IsEmbeddedResource(doc[k].URI) /\ UnsafeURI(doc[k].URI)) =>
            /\ ~Called(doc[k].URI)
            /\ ResolvedByURI(k) =>
                  /\ doc[k].Data = <<>>
                  /\ ~(pc = "done" /\ err = "nil")
                  /\ (/\ pc = "done"
                      /\ idx = k
                      /\ doc[k].ByteLength \in 1..QuotaMaxMemoryAllocation)
                         => err = "bad_uri"

C2_Witness ==
    /\ pc = "done"
    /\ err = "bad_uri"
    /\ idx = 2
    /\ doc[2].URI = uriParent
    /\ doc[1].URI = uriA
    /\ doc[1].Data # <<>>
    /\ cbCalls = <<uriA>>

\* A binary container as C3 describes it: a valid header, one JSON chunk,
\* one chunk of type BIN holding the bytes it declares, at least byteLength
\* of them, and byteLength nonzero and within the memory quota.
WellFormedContainer ==
    /\ IsGLB(input)
    /\ input.chunkType = glbChunkJSON
    /\ input.chunkLength = U32(input.jsonLen + input.pad)
    /\ input.length = U32(LayoutLen(input))
    /\ input.hasBin
    /\ input.binType = glbChunkBIN
    /\ input.binLength = Len(input.payload)
    /\ Len(input.buffers) > 0
    /\ input.buffers[1].ByteLength \in 1..QuotaMaxMemoryAllocation
    /\ input.binLength >= input.buffers[1].ByteLength

\* C3: after a successful Decode of a well-formed binary container,
\* buffers[0].Data is the first byteLength bytes of the binary chunk's
\* payload, however the input is split into reads.
C3_GLBPayload ==
    (pc = "done" /\ err = "nil" /\ WellFormedContainer) =>
        doc[1].Data = SubSeq(input.payload, 1, doc[1].ByteLength)

\* C4: when a buffer resolved from its URI has the base64 marker and the
\* remainder fails to decode or decodes to no bytes, Decode does not return
\* success.
C4_EmbeddedErrors ==
    \A k \in 1..Len(doc) :
        LET uri == doc[k].URI
            start == Len(mimetypeApplicationOctet) + 1
            r == B64DecodeString(SubSeq(uri, start + 1, Len(uri)))
        IN  (/\ ResolvedByURI(k)
             /\ IsEmbeddedResource(uri)
             /\ Len(uri) >= start
             /\ (~r.ok \/ r.data = <<>>))
                => ~(pc = "done" /\ err = "nil")

\* The URIs the callback is invoked with when buffers 1..n are resolved
RECURSIVE CallsUpTo(_)
CallsUpTo(n) ==
    IF n = 0 THEN <<>>
    ELSE IF /\ ResolvedByURI(n)
            /\ doc[n].ByteLength \in 1..QuotaMaxMemoryAllocation
            /\ doc[n].URI # <<>>
            /\ ~IsEmbeddedResource(doc[n].URI)
            /\ ~UnsafeURI(doc[n].URI)
         THEN Append(CallsUpTo(n - 1), doc[n].URI)
         ELSE CallsUpTo(n - 1)

\* C10: buffers are resolved in document order and resolution stops at the
\* first failure: Decode has returned as soon as there is an error; only
\* buffers up to the current one (idx) have Data, a chunk read or a callback
\* invocation, the invocations being in document order; idx only moves on by
\* one; and a buffer that was passed keeps its payload.
C10_ResolutionOrder ==
    /\ [](/\ err \notin {"none", "nil"} => pc = "done"
          /\ \A k \in 1..Len(doc) : k > idx => doc[k].Data = <<>>
          /\ cbCalls \in {CallsUpTo(Min(idx, Len(doc))),
                          CallsUpTo(IF idx = 0 THEN 0
                                    ELSE Min(idx - 1, Len(doc)))}
          /\ chunkReads <= 1
          /\ chunkReads = 1 => (isBinary /\ idx >= 1))
    /\ [][/\ idx' \in {idx, idx + 1}
          /\ \A k \in 1..Len(doc) : k < idx => doc'[k] = doc[k]]_vars

C10_Witness ==
    /\ pc = "done"
    /\ err = "cb"
    /\ isBinary
    /\ idx = 2
    /\ Len(doc[1].Data) = MaxPayload
    /\ doc[1].Data = input.payload
    /\ cbCalls = <<doc[2].URI>>

---------------------------------------------------------------------------
(* Camera.MarshalJSON (struct.go).                                         *)
(*                                                                         *)
(* A pointer is a sequence: <<>> for nil, <<v>> for a pointer to v.  An    *)
(* encoded JSON object is the sequence of its members <<key, value>>, in   *)
(* the order encoding/json emits the fields.  The numbers are finite.      *)

Nil == <<>>

\* A member with omitempty: left out when the value is empty (nil, "")
OmitEmpty(key, v, encoded) == IF v = <<>> THEN <<>> ELSE << <<key, encoded>> >>

\* json.Marshal of a Perspective
MarshalPerspective(p) ==
    OmitEmpty("aspectRatio", p.AspectRatio,
              IF p.AspectRatio = Nil THEN 0 ELSE p.AspectRatio[1])
    \o << <<"yfov", p.Yfov>> >>
    \o OmitEmpty("zfar", p.Zfar, IF p.Zfar = Nil THEN 0 ELSE p.Zfar[1])
    \o << <<"znear", p.Znear>> >>

\* json.Marshal of an Orthographic
MarshalOrthographic(o) ==
    << <<"xmag", o.Xmag>>, <<"ymag", o.Ymag>>, <<"zfar", o.Zfar>>,
       <<"znear", o.Znear>> >>

\* json.Marshal of the embedded *alias: the fields of Camera
MarshalCameraAlias(c) ==
    OmitEmpty("name", c.Name, c.Name)
    \o OmitEmpty("orthographic", c.Orthographic,
                 IF c.Orthographic = Nil THEN <<>>
                 ELSE MarshalOrthographic(c.Orthographic[1]))
    \o OmitEmpty("perspective", c.Perspective,
                 IF c.Perspective = Nil THEN <<>>
                 ELSE MarshalPerspective(c.Perspective[1]))

\* The discriminator, testing the orthographic sub-object first
CameraType_OrthographicFirst(c) ==
    IF c.Orthographic # Nil THEN "orthographic"
    ELSE IF c.Perspective # Nil THEN "perspective"
    ELSE "none"

\* The discriminator Camera.MarshalJSON selects (lines 267, 275)
CameraType(c) ==
    IF c.Perspective # Nil THEN "perspective"
    ELSE IF c.Orthographic # Nil THEN "orthographic"
    ELSE "none"

\* Camera.MarshalJSON: [out, err]
CameraMarshalJSON(c) ==
    IF CameraType(c) = "none"
    THEN [out |-> <<>>, err |-> "camera"]
    ELSE [out |-> << <<"type", CameraType(c)>> >> \o MarshalCameraAlias(c),
          err |-> "nil"]

CameraMarshal ==
    /\ camOut.pc = "new"
    /\ LET r == CameraMarshalJSON(cam)
       IN  camOut' = [pc |-> "encoded", out |-> r.out, err |-> r.err]
    /\ UNCHANGED <<cam, decVars, extVars, nodeVars>>

InitCamera ==
    /\ \E n \in { <<>>, <<"a">> },
          o \in { Nil }
                \cup { << [Xmag |-> x, Ymag |-> y, Zfar |-> 2, Znear |-> z] >> :
                           x \in 1..2, y \in 1..2, z \in 0..1 },
          p \in { Nil }
                \cup { << [AspectRatio |-> a, Yfov |-> y, Zfar |-> f,
                           Znear |-> z] >> :
                           a \in {Nil, <<1>>}, y \in 1..2, f \in {Nil, <<2>>},
                           z \in 0..1 } :
          cam = [Name |-> n, Orthographic |-> o, Perspective |-> p]
    /\ camOut = [pc |-> "new", out |-> <<>>, err |-> "none"]
    /\ DecIdle /\ ExtIdle /\ NodeIdle

NextCamera == CameraMarshal

SpecCamera == InitCamera /\ [][NextCamera]_vars

HasKey(members, key) == \E k \in 1..Len(members) : members[k][1] = key

ValueOf(members, key) ==
    members[CHOOSE k \in 1..Len(members) : members[k][1] = key][2]

\* C6: encoding a camera emits type "perspective" when Perspective is set,
\* type "orthographic" when only Orthographic is set, and fails with the
\* camera error, with no output, exactly when neither is set.
C6_CameraDiscriminator ==
    camOut.pc = "encoded" =>
        /\ cam.Perspective # Nil =>
              /\ camOut.err = "nil"
              /\ ValueOf(camOut.out, "type") = "perspective"
        /\ (cam.Perspective = Nil /\ cam.Orthographic # Nil) =>
              /\ camOut.err = "nil"
              /\ ValueOf(camOut.out, "type") = "orthographic"
        /\ camOut.err # "nil" <=>
              (cam.Perspective = Nil /\ cam.Orthographic = Nil)
        /\ camOut.err # "nil" => (camOut.err = "camera" /\ camOut.out = <<>>)

C6_Witness ==
    /\ camOut.pc = "encoded"
    /\ cam.Perspective # Nil
    /\ cam.Orthographic # Nil
    /\ camOut.err = "nil"
    /\ ValueOf(camOut.out, "type") = "perspective"

\* C7: every successful camera encode emits exactly one of the two
\* projection sub-objects, the one the type discriminator names.
C7_CameraClosedChoice ==
    (camOut.pc = "encoded" /\ camOut.err = "nil") =>
        /\ HasKey(camOut.out, "perspective") # HasKey(camOut.out, "orthographic")
        /\ HasKey(camOut.out, ValueOf(camOut.out, "type"))

---------------------------------------------------------------------------
(* Extensions.UnmarshalJSON and the extension registry (struct.go).        *)
(*                                                                         *)
(* A payload is the sequence of its tokens, whitespace included, so the    *)
(* raw bytes of a payload and the value a factory decodes from it differ.  *)
(* A stored value is [kind, bytes, typed]: a json.RawMessage carries the   *)
(* bytes, a typed instance carries what its factory decoded.               *)

ExtKeys == { "XYZ_foo", "KHR_lights" }

Digits == { "1", "2" }

payloadObject == << "{", "\"a\"", ":", "1", "}" >>
payloadSpaced == << "{", " ", "\"a\"", ":", "2", " ", "}" >>
payloadArray == << "[", "1", "]" >>
payloadNumber == << "1" >>

ExtPayloads == { payloadObject, payloadSpaced, payloadArray, payloadNumber }

\* The factories a program can register; "none" is a key with no factory
FactoryKinds == { "object", "number" }

NoInstance == [factory |-> "none", a |-> ""]

Absent == [kind |-> "absent", bytes |-> <<>>, typed |-> NoInstance]

RawMessage(bytes) == [kind |-> "raw", bytes |-> bytes, typed |-> NoInstance]

Instance(n) == [kind |-> "typed", bytes |-> <<>>, typed |-> n]

StripSpace(bytes) == SelectSeq(bytes, LAMBDA t : t # " ")

\* n := extFactory(); err := json.Unmarshal(value, n): the "object" factory
\* decodes {"a":N} into a struct, the "number" factory decodes a number.
FactoryDecode(f, value) ==
    LET t == StripSpace(value)
    IN  IF /\ f = "object" /\ Len(t) = 5
           /\ t[1] = "{" /\ t[2] = "\"a\"" /\ t[3] = ":"
           /\ t[4] \in Digits /\ t[5] = "}"
        THEN [ok |-> TRUE, n |-> [factory |-> f, a |-> t[4]]]
        ELSE IF f = "number" /\ Len(t) = 1 /\ t[1] \in Digits
        THEN [ok |-> TRUE, n |-> [factory |-> f, a |-> t[1]]]
        ELSE [ok |-> FALSE, n |-> [factory |-> f, a |-> ""]]

\* The value stored for a key, keeping the instance of a failed decode
ExtensionValue_KeepFailedInstance(f, value) ==
    IF f = "none" THEN RawMessage(value)
    ELSE Instance(FactoryDecode(f, value).n)

\* The value stored for a key (lines 698-709)
ExtensionValue(f, value) ==
    IF f = "none" THEN RawMessage(value)
    ELSE IF FactoryDecode(f, value).ok
         THEN Instance(FactoryDecode(f, value).n)
         ELSE RawMessage(value)

InEnvelope(members, key) == \E i \in 1..Len(members) : members[i].key = key

\* json.Unmarshal into the envelope map: the last member of a key wins
EnvelopeValue(members, key) ==
    members[CHOOSE i \in 1..Len(members) :
                /\ members[i].key = key
                /\ \A j \in (i + 1)..Len(members) : members[j].key # key].value

\* Extensions.UnmarshalJSON: [ext, err]
ExtensionsUnmarshalJSON(registry, ext, data) ==
    IF ~data.object
    THEN [ext |-> ext, err |-> "json"]
    ELSE [ext |-> [k \in ExtKeys |->
                      IF InEnvelope(data.members, k)
                      THEN ExtensionValue(registry[k],
                                          EnvelopeValue(data.members, k))
                      ELSE ext[k]],
          err |-> "nil"]

\* RegisterExtension, called from the init functions of extension packages,
\* before any document is decoded
RegisterExtension ==
    /\ extOut.pc = "new"
    /\ \E key \in ExtKeys, f \in FactoryKinds :
          extensions' = [extensions EXCEPT ![key] = f]
    /\ UNCHANGED <<extIn, extOut, decVars, camVars, nodeVars>>

ExtensionsUnmarshal ==
    /\ extOut.pc = "new"
    /\ LET r == ExtensionsUnmarshalJSON(extensions, extOut.ext, extIn)
       IN  extOut' = [pc |-> "decoded", ext |-> r.ext, err |-> r.err]
    /\ UNCHANGED <<extensions, extIn, decVars, camVars, nodeVars>>

MaxMembers == 2

ExtMembers == [key : ExtKeys, value : ExtPayloads]

PriorExtensions ==
    { [k \in ExtKeys |-> Absent],
      [k \in ExtKeys |-> IF k = "XYZ_foo" THEN RawMessage(payloadArray)
                         ELSE Absent] }

InitExt ==
    /\ extensions = [k \in ExtKeys |-> "none"]
    /\ \E object \in BOOLEAN, members \in SeqsUpTo(ExtMembers, MaxMembers) :
          extIn = [object |-> object,
                   members |-> IF object THEN members ELSE <<>>]
    /\ \E prior \in PriorExtensions :
          extOut = [pc |-> "new", ext |-> prior, err |-> "none"]
    /\ DecIdle /\ CamIdle /\ NodeIdle

NextExt == RegisterExtension \/ ExtensionsUnmarshal

SpecExt == InitExt /\ [][NextExt]_vars

\* C5: decoding an extensions object stores, for every key, the exact raw
\* payload when no factory is registered, the factory's typed instance when
\* its decode succeeds, and the raw payload when its decode fails; the
\* decode reports no error in any of these cases.
C5_ExtensionDispatch ==
    (extOut.pc = "decoded" /\ extIn.object) =>
        /\ extOut.err = "nil"
        /\ \A k \in ExtKeys :
              InEnvelope(extIn.members, k) =>
                 LET value == EnvelopeValue(extIn.members, k)
                     d == FactoryDecode(extensions[k], value)
                     stored == extOut.ext[k]
                 IN  /\ extensions[k] = "none" =>
                            (stored.kind = "raw" /\ stored.bytes = value)
                     /\ (extensions[k] # "none" /\ d.ok) =>
                            /\ stored.kind = "typed"
                            /\ stored.typed.factory = extensions[k]
                            /\ stored.typed = d.n
                     /\ (extensions[k] # "none" /\ ~d.ok) =>
                            (stored.kind = "raw" /\ stored.bytes = value)

C5_Witness ==
    /\ extOut.pc = "decoded"
    /\ extIn.object
    /\ extIn.members = << [key |-> "XYZ_foo", value |-> payloadArray],
                          [key |-> "KHR_lights", value |-> payloadSpaced] >>
    /\ extensions["XYZ_foo"] = "object"
    /\ extensions["KHR_lights"] = "object"
    /\ extOut.ext["XYZ_foo"] = RawMessage(payloadArray)
    /\ extOut.ext["KHR_lights"].kind = "typed"
    /\ extOut.err = "nil"

---------------------------------------------------------------------------
(* JSON text, as encoding/json reads and writes it (struct.go calls        *)
(* json.Unmarshal and json.Marshal).                                       *)
(*                                                                         *)
(* A text is a sequence of tokens: each punctuation mark, quote and digit  *)
(* is one token, and so is each word (scale, matrix, ...).  The texts are  *)
(* compact, as json.Marshal writes them; numbers are single digits.  A     *)
(* value is [kind, num, parts]: parts holds the characters of a string,    *)
(* the elements of an array, the members [key, val] of an object.          *)

NumTokens == { "0", "1", "2" }

NumValue(tok) == CASE tok = "0" -> 0 [] tok = "1" -> 1 [] tok = "2" -> 2

NumToken(n) == CASE n = 0 -> "0" [] n = 1 -> "1" [] n = 2 -> "2"

JValue(kind, num, parts) == [kind |-> kind, num |-> num, parts |-> parts]

SyntaxError == [ok |-> FALSE, v |-> JValue("num", 0, <<>>), next |-> 0]

\* The index of the quote that closes the string opened at t[i], or 0
ClosingQuote(t, i) ==
    IF \E j \in (i + 1)..Len(t) : t[j] = "\""
    THEN CHOOSE j \in (i + 1)..Len(t) :
             /\ t[j] = "\""
             /\ \A k \in (i + 1)..(j - 1) : t[k] # "\""
    ELSE 0

ParseString(t, i) ==
    IF i > Len(t) \/ t[i] # "\"" \/ ClosingQuote(t, i) = 0
    THEN SyntaxError
    ELSE [ok |-> TRUE,
          v |-> JValue("str", 0,
                      SubSeq(t, i + 1, ClosingQuote(t, i) - 1)),
          next |-> ClosingQuote(t, i) + 1]

RECURSIVE ParseValue(_, _)
RECURSIVE ParseElements(_, _, _)
RECURSIVE ParseMembers(_, _, _)

\* The value that starts at t[i]: [ok, v, next]
ParseValue(t, i) ==
    IF i > Len(t) THEN SyntaxError
    ELSE IF t[i] \in NumTokens
    THEN [ok |-> TRUE, v |-> JValue("num", NumValue(t[i]), <<>>), next |-> i + 1]
    ELSE IF t[i] = "\"" THEN ParseString(t, i)
    ELSE IF t[i] = "["
    THEN IF i + 1 <= Len(t) /\ t[i + 1] = "]"
         THEN [ok |-> TRUE, v |-> JValue("arr", 0, <<>>), next |-> i + 2]
         ELSE ParseElements(t, i + 1, <<>>)
    ELSE IF t[i] = "{"
    THEN IF i + 1 <= Len(t) /\ t[i + 1] = "}"
         THEN [ok |-> TRUE, v |-> JValue("obj", 0, <<>>), next |-> i + 2]
         ELSE ParseMembers(t, i + 1, <<>>)
    ELSE SyntaxError

ParseElements(t, i, acc) ==
    LET e == ParseValue(t, i)
    IN  IF ~e.ok \/ e.next > Len(t) THEN SyntaxError
        ELSE IF t[e.next] = ","
        THEN ParseElements(t, e.next + 1, Append(acc, e.v))
        ELSE IF t[e.next] = "]"
        THEN [ok |-> TRUE, v |-> JValue("arr", 0, Append(acc, e.v)), next |-> e.next + 1]
        ELSE SyntaxError

ParseMembers(t, i, acc) ==
    LET k == ParseString(t, i)
    IN  IF ~k.ok \/ k.next > Len(t) \/ t[k.next] # ":" THEN SyntaxError
        ELSE LET e == ParseValue(t, k.next + 1)
                 m == [key |-> k.v.parts, val |-> e.v]
             IN  IF ~e.ok \/ e.next > Len(t) THEN SyntaxError
                 ELSE IF t[e.next] = ","
                 THEN ParseMembers(t, e.next + 1, Append(acc, m))
                 ELSE IF t[e.next] = "}"
                 THEN [ok |-> TRUE, v |-> JValue("obj", 0, Append(acc, m)),
                       next |-> e.next + 1]
                 ELSE SyntaxError

\* The value of a whole text: [ok, v]
ParseJSON(t) ==
    LET r == ParseValue(t, 1)
    IN  IF r.ok /\ r.next = Len(t) + 1
        THEN [ok |-> TRUE, v |-> r.v]
        ELSE [ok |-> FALSE, v |-> JValue("num", 0, <<>>)]

\* The tokens in byte order, by which json.Marshal sorts the keys of a map
TokenOrder ==
    << "\"", ",", "0", "1", "2", ":", "[", "]", "a", "b", "baseColorFactor",
       "extras", "matrix", "mesh", "metallicFactor", "name", "rotation",
       "roughnessFactor", "scale", "translation", "{", "}" >>

Rank(tok) == CHOOSE k \in 1..Len(TokenOrder) : TokenOrder[k] = tok

RECURSIVE KeyLess(_, _)
KeyLess(a, b) ==
    IF b = <<>> THEN FALSE
    ELSE IF a = <<>> THEN TRUE
    ELSE IF a[1] = b[1] THEN KeyLess(Tail(a), Tail(b))
    ELSE Rank(a[1]) < Rank(b[1])

RECURSIVE SortKeys(_)
SortKeys(S) ==
    IF S = {} THEN <<>>
    ELSE LET least == CHOOSE x \in S : \A y \in S \ {x} : KeyLess(x, y)
         IN  <<least>> \o SortKeys(S \ {least})

\* The member an object decoded into a map keeps for a key: the last one
MapValue(members, key) ==
    members[CHOOSE i \in 1..Len(members) :
                /\ members[i].key = key
                /\ \A j \in (i + 1)..Len(members) : members[j].key # key].val

RECURSIVE Join(_, _)
Join(texts, sep) ==
    IF Len(texts) = 0 THEN <<>>
    ELSE IF Len(texts) = 1 THEN texts[1]
    ELSE texts[1] \o sep \o Join(Tail(texts), sep)

Quoted(chars) == <<"\"">> \o chars \o <<"\"">>

\* json.Marshal of a value decoded into an interface{}
RECURSIVE MarshalValue(_)
MarshalValue(v) ==
    IF v.kind = "num" THEN << NumToken(v.num) >>
    ELSE IF v.kind = "str" THEN Quoted(v.parts)
    ELSE IF v.kind = "arr"
    THEN <<"[">>
         \o Join([k \in 1..Len(v.parts) |-> MarshalValue(v.parts[k])], <<",">>)
         \o <<"]">>
    ELSE LET keys == SortKeys({ v.parts[k].key : k \in 1..Len(v.parts) })
         IN  <<"{">>
             \o Join([k \in 1..Len(keys) |->
                         Quoted(keys[k]) \o <<":">>
                         \o MarshalValue(MapValue(v.parts, keys[k]))],
                     <<",">>)
             \o <<"}">>

\* json.Marshal of an array of numbers
MarshalFloats(a) ==
    <<"[">> \o Join([k \in 1..Len(a) |-> << NumToken(a[k]) >>], <<",">>)
    \o <<"]">>

---------------------------------------------------------------------------
(* Node: the transform defaults, UnmarshalJSON and MarshalJSON             *)
(* (struct.go).  Of the fields of Node the model keeps extras, name,       *)
(* matrix, mesh, rotation, scale and translation; the others are empty     *)
(* and omitted from the JSON.                                              *)

DefaultMatrix == << 1, 0, 0, 0, 0, 1, 0, 0, 0, 0, 1, 0, 0, 0, 0, 1 >>

emptyMatrix == Zeros(16)

DefaultRotation == << 0, 0, 0, 1 >>

emptyRotation == Zeros(4)

DefaultScale == << 1, 1, 1 >>

emptyScale == Zeros(3)

DefaultTranslation == << 0, 0, 0 >>

\* The zero value of Node
ZeroNode ==
    [Extras |-> Nil, Name |-> <<>>, Matrix |-> Zeros(16), Mesh |-> Nil,
     Rotation |-> Zeros(4), Scale |-> Zeros(3), Translation |-> Zeros(3)]

MatrixOrDefault(n) == IF n.Matrix = emptyMatrix THEN DefaultMatrix ELSE n.Matrix

RotationOrDefault(n) ==
    IF n.Rotation = emptyRotation THEN DefaultRotation ELSE n.Rotation

ScaleOrDefault(n) == IF n.Scale = emptyScale THEN DefaultScale ELSE n.Scale

TranslationOrDefault(n) == n.Translation

\* json.Unmarshal of a value into a fixed-size array of numbers: elements
\* past the end are dropped, missing elements are set to zero
DecodeFloats(v, cur) ==
    IF v.kind # "arr" THEN [ok |-> FALSE, val |-> cur]
    ELSE [ok |-> \A k \in 1..Min(Len(v.parts), Len(cur)) :
                     v.parts[k].kind = "num",
          val |-> [k \in 1..Len(cur) |->
                      IF k > Len(v.parts) THEN 0
                      ELSE IF v.parts[k].kind = "num" THEN v.parts[k].num
                      ELSE cur[k]]]

\* json.Unmarshal of one member into the matching field: [ok, n]
DecodeMember(n, m) ==
    IF m.key = <<"extras">>
    THEN [ok |-> TRUE, n |-> [n EXCEPT !.Extras = << m.val >>]]
    ELSE IF m.key = <<"name">>
    THEN [ok |-> m.val.kind = "str",
          n |-> IF m.val.kind = "str" THEN [n EXCEPT !.Name = m.val.parts]
                ELSE n]
    ELSE IF m.key = <<"mesh">>
    THEN [ok |-> m.val.kind = "num",
          n |-> IF m.val.kind = "num" THEN [n EXCEPT !.Mesh = << m.val.num >>]
                ELSE n]
    ELSE IF m.key = <<"matrix">>
    THEN [ok |-> DecodeFloats(m.val, n.Matrix).ok,
          n |-> [n EXCEPT !.Matrix = DecodeFloats(m.val, n.Matrix).val]]
    ELSE IF m.key = <<"rotation">>
    THEN [ok |-> DecodeFloats(m.val, n.Rotation).ok,
          n |-> [n EXCEPT !.Rotation = DecodeFloats(m.val, n.Rotation).val]]
    ELSE IF m.key = <<"scale">>
    THEN [ok |-> DecodeFloats(m.val, n.Scale).ok,
          n |-> [n EXCEPT !.Scale = DecodeFloats(m.val, n.Scale).val]]
    ELSE IF m.key = <<"translation">>
    THEN [ok |-> DecodeFloats(m.val, n.Translation).ok,
          n |-> [n EXCEPT
                    !.Translation = DecodeFloats(m.val, n.Translation).val]]
    ELSE [ok |-> TRUE, n |-> n]

RECURSIVE DecodeMembers(_, _, _)
DecodeMembers(members, k, acc) ==
    IF k > Len(members) THEN acc
    ELSE LET r == DecodeMember(acc.n, members[k])
         IN  DecodeMembers(members, k + 1,
                           [ok |-> acc.ok /\ r.ok, n |-> r.n])

\* Node.UnmarshalJSON on the node n: [n, err]
NodeUnmarshalJSON(n, data) ==
    LET tmp == [ZeroNode EXCEPT !.Matrix = DefaultMatrix,
                                !.Rotation = DefaultRotation,
                                !.Scale = DefaultScale]
        p == ParseJSON(data)
        r == DecodeMembers(p.v.parts, 1, [ok |-> TRUE, n |-> tmp])
    IN  IF p.ok /\ p.v.kind = "obj" /\ r.ok
        THEN [n |-> r.n, err |-> "nil"]
        ELSE [n |-> n, err |-> "json"]

Property(key, text) == Quoted(<<key>>) \o <<":">> \o text

\* json.Marshal of the embedded *alias: the fields of Node, in their order
MarshalNodeAlias(n) ==
    <<"{">>
    \o Join((IF Len(n.Extras) = 0 THEN <<>>
             ELSE << Property("extras", MarshalValue(n.Extras[1])) >>)
            \o (IF Len(n.Name) = 0 THEN <<>>
                ELSE << Property("name", Quoted(n.Name)) >>)
            \o << Property("matrix", MarshalFloats(n.Matrix)) >>
            \o (IF Len(n.Mesh) = 0 THEN <<>>
                ELSE << Property("mesh", << NumToken(n.Mesh[1]) >>) >>)
            \o << Property("rotation", MarshalFloats(n.Rotation)),
                  Property("scale", MarshalFloats(n.Scale)),
                  Property("translation", MarshalFloats(n.Translation)) >>,
            <<",">>)
    \o <<"}">>

\* bytes.Index, counted from 1; 0 when there is no occurrence
Index(b, sep) ==
    IF Contains(b, sep)
    THEN CHOOSE i \in 1..(Len(b) - Len(sep) + 1) :
             /\ SubSeq(b, i, i + Len(sep) - 1) = sep
             /\ \A j \in 1..(i - 1) : SubSeq(b, j, j + Len(sep) - 1) # sep
    ELSE 0

\* bytes.Replace(b, old, new, 1)
ReplaceFirst(b, old, new) ==
    IF Index(b, old) = 0 THEN b
    ELSE SubSeq(b, 1, Index(b, old) - 1) \o new
         \o SubSeq(b, Index(b, old) + Len(old), Len(b))

removeProperty(str, b) ==
    ReplaceFirst(ReplaceFirst(b, str, <<>>), <<",", ",">>, <<",">>)

sanitizeJSON(b) ==
    ReplaceFirst(ReplaceFirst(b, <<"{", ",">>, <<"{">>),
                 <<",", "}">>, <<"}">>)

\* The texts Node.MarshalJSON removes
textMatrixDefault ==
    << "\"", "matrix", "\"", ":", "[", "1", ",", "0", ",", "0", ",", "0",
       ",", "0", ",", "1", ",", "0", ",", "0", ",", "0", ",", "0", ",",
       "1", ",", "0", ",", "0", ",", "0", ",", "0", ",", "1", "]" >>

textMatrixEmpty ==
    << "\"", "matrix", "\"", ":", "[", "0", ",", "0", ",", "0", ",", "0",
       ",", "0", ",", "0", ",", "0", ",", "0", ",", "0", ",", "0", ",",
       "0", ",", "0", ",", "0", ",", "0", ",", "0", ",", "0", "]" >>

textRotationDefault ==
    << "\"", "rotation", "\"", ":", "[", "0", ",", "0", ",", "0", ",", "1",
       "]" >>

textRotationEmpty ==
    << "\"", "rotation", "\"", ":", "[", "0", ",", "0", ",", "0", ",", "0",
       "]" >>

textScaleDefault ==
    << "\"", "scale", "\"", ":", "[", "1", ",", "1", ",", "1", "]" >>

textScaleEmpty ==
    << "\"", "scale", "\"", ":", "[", "0", ",", "0", ",", "0", "]" >>

textTranslationDefault ==
    << "\"", "translation", "\"", ":", "[", "0", ",", "0", ",", "0", "]" >>

\* Node.MarshalJSON; json.Marshal of these nodes does not fail
NodeMarshalJSON(n) ==
    LET out0 == MarshalNodeAlias(n)
        out1 == IF n.Matrix = DefaultMatrix
                THEN removeProperty(textMatrixDefault, out0)
                ELSE IF n.Matrix = emptyMatrix
                THEN removeProperty(textMatrixEmpty, out0)
                ELSE out0
        out2 == IF n.Rotation = DefaultRotation
                THEN removeProperty(textRotationDefault, out1)
                ELSE IF n.Rotation = emptyRotation
                THEN removeProperty(textRotationEmpty, out1)
                ELSE out1
        out3 == IF n.Scale = DefaultScale
                THEN removeProperty(textScaleDefault, out2)
                ELSE IF n.Scale = emptyScale
                THEN removeProperty(textScaleEmpty, out2)
                ELSE out2
        out4 == IF n.Translation = DefaultTranslation
                THEN removeProperty(textTranslationDefault, out3)
                ELSE out3
    IN  sanitizeJSON(out4)

NodeUnmarshal ==
    /\ node.pc = "text"
    /\ LET r == NodeUnmarshalJSON(ZeroNode, nodeIn)
       IN  node' = [node EXCEPT
                       !.pc = IF r.err = "nil" THEN "decoded" ELSE "failed",
                       !.n = r.n, !.err = r.err]
    /\ UNCHANGED <<nodeIn, decVars, camVars, extVars>>

NodeMarshal ==
    /\ node.pc = "decoded"
    /\ node' = [node EXCEPT !.pc = "encoded", !.out = NodeMarshalJSON(node.n)]
    /\ UNCHANGED <<nodeIn, decVars, camVars, extVars>>

\* Node.UnmarshalJSON of the encoded text, on a new node
NodeReUnmarshal ==
    /\ node.pc = "encoded"
    /\ LET r == NodeUnmarshalJSON(ZeroNode, node.out)
       IN  node' = [node EXCEPT !.pc = "redecoded", !.n2 = r.n, !.err = r.err]
    /\ UNCHANGED <<nodeIn, decVars, camVars, extVars>>

\* The node objects decoded: each property is absent (Nil) or has one of
\* the listed texts.
InputProperty(key, text) ==
    IF Len(text) = 0 THEN <<>> ELSE << Property(key, text[1]) >>

NodeText(extras, name, matrix, mesh, rotation, scale, translation) ==
    <<"{">>
    \o Join(InputProperty("extras", extras) \o InputProperty("name", name)
            \o InputProperty("matrix", matrix) \o InputProperty("mesh", mesh)
            \o InputProperty("rotation", rotation)
            \o InputProperty("scale", scale)
            \o InputProperty("translation", translation),
            <<",">>)
    \o <<"}">>

InitNode ==
    /\ \E extras \in { Nil,
                         << << "{", "\"", "a", "\"", ":", "1", "}" >> >>,
                         << <<"{">> \o textScaleDefault \o <<"}">> >>,
                         << <<"{">> \o textScaleEmpty \o <<"}">> >> },
          name \in { Nil, << Quoted(<<"a">>) >>, << Quoted(<<",", ",">>) >> },
          matrix \in { Nil, << MarshalFloats(DefaultMatrix) >>,
                       << MarshalFloats(emptyMatrix) >>,
                       << MarshalFloats([DefaultMatrix EXCEPT ![1] = 2]) >> },
          mesh \in { Nil, << <<"1">> >> },
          rotation \in { Nil, << MarshalFloats(DefaultRotation) >>,
                         << MarshalFloats(emptyRotation) >>,
                         << MarshalFloats(<<1, 0, 0, 0>>) >> },
          scale \in { Nil, << MarshalFloats(DefaultScale) >>,
                      << MarshalFloats(emptyScale) >>,
                      << MarshalFloats(<<2, 1, 1>>) >> },
          translation \in { Nil, << MarshalFloats(DefaultTranslation) >>,
                            << MarshalFloats(<<1, 0, 0>>) >> } :
          nodeIn = NodeText(extras, name, matrix, mesh, rotation, scale,
                            translation)
    /\ node = [pc |-> "text", n |-> ZeroNode, out |-> <<>>, n2 |-> ZeroNode,
               err |-> "none"]
    /\ DecIdle /\ CamIdle /\ ExtIdle

NextNode == NodeUnmarshal \/ NodeMarshal \/ NodeReUnmarshal

SpecNode == InitNode /\ [][NextNode]_vars

TransformKeys == { "matrix", "rotation", "scale", "translation" }

FieldOf(n, key) ==
    CASE key = "matrix" -> n.Matrix
      [] key = "rotation" -> n.Rotation
      [] key = "scale" -> n.Scale
      [] key = "translation" -> n.Translation

DefaultOf(key) ==
    CASE key = "matrix" -> DefaultMatrix
      [] key = "rotation" -> DefaultRotation
      [] key = "scale" -> DefaultScale
      [] key = "translation" -> DefaultTranslation

HasMember(members, key) ==
    \E i \in 1..Len(members) : members[i].key = <<key>>

\* The encoded text is a JSON object without a property of this name
OmitsProperty(text, key) ==
    /\ ParseJSON(text).ok
    /\ ParseJSON(text).v.kind = "obj"
    /\ ~HasMember(ParseJSON(text).v.parts, key)

\* C8: for matrix, rotation, scale and translation, decoding a node object
\* that lacks the property yields the default, and a node object in which
\* the property is explicitly the default re-encodes to JSON that does not
\* contain the property.
C8_TransformDefaults ==
    \A key \in TransformKeys :
        LET members == ParseJSON(nodeIn).v.parts
        IN  /\ (node.pc \in {"decoded", "encoded", "redecoded"}
                /\ ~HasMember(members, key))
               => FieldOf(node.n, key) = DefaultOf(key)
            /\ (/\ node.pc \in {"encoded", "redecoded"}
                /\ HasMember(members, key)
                /\ MarshalValue(MapValue(members, <<key>>))
                      = MarshalFloats(DefaultOf(key)))
               => OmitsProperty(node.out, key)

\* C9: a node whose matrix, rotation or scale is all zeros encodes with the
\* property omitted, and for every node n, decode(encode(n)) succeeds with
\* Matrix = n.MatrixOrDefault(), Rotation = n.RotationOrDefault(),
\* Scale = n.ScaleOrDefault() and Translation = n.Translation.
C9_ZeroSentinel ==
    /\ node.pc \in {"encoded", "redecoded"} =>
          /\ node.n.Matrix = emptyMatrix => OmitsProperty(node.out, "matrix")
          /\ node.n.Rotation = emptyRotation
                => OmitsProperty(node.out, "rotation")
          /\ node.n.Scale = emptyScale => OmitsProperty(node.out, "scale")
    /\ node.pc = "redecoded" =>
          /\ node.err = "nil"
          /\ node.n2.Matrix = MatrixOrDefault(node.n)
          /\ node.n2.Rotation = RotationOrDefault(node.n)
          /\ node.n2.Scale = ScaleOrDefault(node.n)
          /\ node.n2.Translation = TranslationOrDefault(node.n)

---------------------------------------------------------------------------
(* Further properties of Decoder.Decode.                                   *)

\* a + n > b over the naturals, for 32-bit a and b and a small natural n
U32SumExceeds(a, n, b) ==
    LET lo == a.lo + n
        hi == a.hi + lo \div Half16
    IN  hi > b.hi \/ (hi = b.hi /\ lo % Half16 > b.lo)

---------------------------------------------------------------------------
(* Properties of the default omission of Node.MarshalJSON.                 *)

NodeKeys ==
    { "extras", "name", "matrix", "mesh", "rotation", "scale", "translation" }

\* The member of this name has the same text in both objects
SameMember(a, b, key) ==
    MarshalValue(MapValue(a, <<key>>)) = MarshalValue(MapValue(b, <<key>>))

\* C12 (for Node): the encoded output is well-formed JSON; a transform
\* property is present iff its value is neither the default nor all zeros;
\* every other property, and every transform property that is present, has
\* exactly the value ordinary structured serialization gives it.
C12_DefaultOmission ==
    node.pc \in {"encoded", "redecoded"} =>
        LET plain == ParseJSON(MarshalNodeAlias(node.n)).v.parts
            o == ParseJSON(node.out)
        IN  /\ o.ok
            /\ o.v.kind = "obj"
            /\ \A key \in NodeKeys :
                  IF /\ key \in TransformKeys
                     /\ FieldOf(node.n, key)
                           \in {DefaultOf(key), Zeros(Len(DefaultOf(key)))}
                  THEN ~HasMember(o.v.parts, key)
                  ELSE /\ HasMember(o.v.parts, key) = HasMember(plain, key)
                       /\ HasMember(plain, key) => SameMember(o.v.parts, plain, key)

---------------------------------------------------------------------------
(* PBRMetallicRoughness: the factor defaults, MarshalJSON and              *)
(* UnmarshalJSON (struct.go).  The model keeps extras, baseColorFactor,    *)
(* metallicFactor and roughnessFactor; the other fields are empty and      *)
(* omitted from the JSON.  The value encoded is in node.n, the text in     *)
(* node.out and the value decoded from it in node.n2.                      *)

MetallicFactorOrDefault(p) ==
    IF p.MetallicFactor = Nil THEN 1 ELSE p.MetallicFactor[1]

RoughnessFactorOrDefault(p) ==
    IF p.RoughnessFactor = Nil THEN 1 ELSE p.RoughnessFactor[1]

\* *NewRGBA() when the pointer is nil
BaseColorFactorOrDefault(p) ==
    IF p.BaseColorFactor = Nil THEN <<1, 1, 1, 1>> ELSE p.BaseColorFactor[1]

\* PBRMetallicRoughness.MarshalJSON; json.Marshal of these values does not
\* fail
PBRMarshalJSON(p) ==
    LET out0 == <<"{">>
                \o Join((IF Len(p.Extras) = 0 THEN <<>>
                         ELSE << Property("extras",
                                          MarshalValue(p.Extras[1])) >>)
                        \o (IF Len(p.BaseColorFactor) = 0 THEN <<>>
                            ELSE << Property("baseColorFactor",
                                        MarshalFloats(p.BaseColorFactor[1])) >>)
                        \o (IF Len(p.MetallicFactor) = 0 THEN <<>>
                            ELSE << Property("metallicFactor",
                                        << NumToken(p.MetallicFactor[1]) >>) >>)
                        \o (IF Len(p.RoughnessFactor) = 0 THEN <<>>
                            ELSE << Property("roughnessFactor",
                                        << NumToken(p.RoughnessFactor[1]) >>) >>),
                        <<",">>)
                \o <<"}">>
        out1 == IF p.MetallicFactor = <<1>>
                THEN removeProperty(<< "\"", "metallicFactor", "\"", ":", "1" >>,
                                    out0)
                ELSE out0
        out2 == IF p.RoughnessFactor = <<1>>
                THEN removeProperty(<< "\"", "roughnessFactor", "\"", ":", "1" >>,
                                    out1)
                ELSE out1
        out3 == IF p.BaseColorFactor = << <<1, 1, 1, 1>> >>
                THEN removeProperty(<< "\"", "baseColorFactor", "\"", ":", "[",
                                       "1", ",", "1", ",", "1", ",", "1", "]" >>,
                                    out2)
                ELSE out2
    IN  sanitizeJSON(out3)

\* PBRMetallicRoughness.UnmarshalJSON on the value p: [n, err].  A number
\* is stored through the seeded pointer; RGBA.UnmarshalJSON decodes an
\* array over [1,1,1,1].
PBRUnmarshalJSON(p, data) ==
    LET tmp == [Extras |-> Nil, BaseColorFactor |-> << <<1, 1, 1, 1>> >>,
                MetallicFactor |-> <<1>>, RoughnessFactor |-> <<1>>]
        parsed == ParseJSON(data)
        members == parsed.v.parts
        Number(acc, m, field) ==
            [ok |-> acc.ok /\ m.val.kind = "num",
             n |-> IF m.val.kind = "num"
                   THEN [acc.n EXCEPT ![field] = << m.val.num >>] ELSE acc.n]
        Member(acc, m) ==
            IF m.key = <<"extras">>
            THEN [acc EXCEPT !.n.Extras = << m.val >>]
            ELSE IF m.key = <<"baseColorFactor">>
            THEN LET c == DecodeFloats(m.val, <<1, 1, 1, 1>>)
                 IN  [ok |-> acc.ok /\ c.ok,
                      n |-> IF c.ok
                            THEN [acc.n EXCEPT !.BaseColorFactor = << c.val >>]
                            ELSE acc.n]
            ELSE IF m.key = <<"metallicFactor">>
            THEN Number(acc, m, "MetallicFactor")
            ELSE IF m.key = <<"roughnessFactor">>
            THEN Number(acc, m, "RoughnessFactor")
            ELSE acc
        decoded[k \in 0..Len(members)] ==
            IF k = 0 THEN [ok |-> TRUE, n |-> tmp]
            ELSE Member(decoded[k - 1], members[k])
    IN  IF parsed.ok /\ parsed.v.kind = "obj" /\ decoded[Len(members)].ok
        THEN [n |-> decoded[Len(members)].n, err |-> "nil"]
        ELSE [n |-> p, err |-> "json"]

PBRMarshal ==
    /\ node.pc = "value"
    /\ node' = [node EXCEPT !.pc = "encoded", !.out = PBRMarshalJSON(node.n)]
    /\ UNCHANGED <<nodeIn, decVars, camVars, extVars>>

\* PBRMetallicRoughness.UnmarshalJSON of the encoded text, on a new value
PBRUnmarshal ==
    /\ node.pc = "encoded"
    /\ LET r == PBRUnmarshalJSON(node.n2, node.out)
       IN  node' = [node EXCEPT !.pc = "redecoded", !.n2 = r.n, !.err = r.err]
    /\ UNCHANGED <<nodeIn, decVars, camVars, extVars>>

\* The values encoded: each pointer nil or set, to the default or not.
InitPBR ==
    /\ \E extras \in { Nil,
                       << JValue("obj", 0, <<[key |-> <<"a">>,
                                               val |-> JValue("num", 1, <<>>)]>>) >>,
                       << JValue("obj", 0, <<[key |-> <<"metallicFactor">>,
                                               val |-> JValue("num", 1, <<>>)]>>) >>,
                       << JValue("obj", 0, <<[key |-> <<"roughnessFactor">>,
                                               val |-> JValue("num", 2, <<>>)]>>) >> },
          color \in { Nil, << <<1, 1, 1, 1>> >>, << <<0, 0, 0, 0>> >>,
                      << <<0, 1, 1, 1>> >> },
          metallic \in { Nil, <<0>>, <<1>>, <<2>> },
          roughness \in { Nil, <<0>>, <<1>>, <<2>> } :
          node = [pc |-> "value",
                  n |-> [Extras |-> extras, BaseColorFactor |-> color,
                         MetallicFactor |-> metallic,
                         RoughnessFactor |-> roughness],
                  out |-> <<>>,
                  n2 |-> [Extras |-> Nil, BaseColorFactor |-> Nil,
                          MetallicFactor |-> Nil, RoughnessFactor |-> Nil],
                  err |-> "none"]
    /\ nodeIn = <<>>
    /\ DecIdle /\ CamIdle /\ ExtIdle

NextPBR == PBRMarshal \/ PBRUnmarshal

SpecPBR == InitPBR /\ [][NextPBR]_vars

\* C13 (for the factors of PBRMetallicRoughness): encoding omits a factor
\* when the field is nil and when it equals the default, and emits it
\* otherwise; decoding the encoded text succeeds, leaves the seeded default
\* for a factor the text omits, and reports the same MetallicFactorOrDefault,
\* RoughnessFactorOrDefault and BaseColorFactorOrDefault as the value
\* encoded.
C13_FactorDefaults ==
    /\ node.pc \in {"encoded", "redecoded"} =>
          LET o == ParseJSON(node.out)
              Omitted(field, key, default) ==
                  /\ o.ok
                  /\ o.v.kind = "obj"
                  /\ HasMember(o.v.parts, key)
                        <=> node.n[field] \notin {Nil, <<default>>}
          IN  /\ Omitted("MetallicFactor", "metallicFactor", 1)
              /\ Omitted("RoughnessFactor", "roughnessFactor", 1)
              /\ Omitted("BaseColorFactor", "baseColorFactor", <<1, 1, 1, 1>>)
    /\ node.pc = "redecoded" =>
          /\ node.err = "nil"
          /\ MetallicFactorOrDefault(node.n2) = MetallicFactorOrDefault(node.n)
          /\ RoughnessFactorOrDefault(node.n2)
                = RoughnessFactorOrDefault(node.n)
          /\ BaseColorFactorOrDefault(node.n2)
                = BaseColorFactorOrDefault(node.n)
          /\ \A f \in {"MetallicFactor", "RoughnessFactor"} :
                node.n[f] \in {Nil, <<1>>} => node.n2[f] = <<1>>
          /\ node.n.BaseColorFactor \in {Nil, << <<1, 1, 1, 1>> >>}
                => node.n2.BaseColorFactor = << <<1, 1, 1, 1>> >>

---------------------------------------------------------------------------
(* Properties of the buffer resolution of Decoder.Decode.                  *)

\* C14: the chunk header of a binary chunk is read at most once, for
\* buffers[0] of a binary container, and only when a binary chunk follows
\* the JSON chunk; in a container without a binary chunk, once Decode is
\* past the checks of buffers[0], that buffer was resolved by its URI: an
\* embedded data URI was decoded, any other safe URI went to the callback.
C14_BufferSourceSelection ==
    /\ chunkReads <= 1
    /\ chunkReads = 1 => (isBinary /\ input.hasBin)
    /\ (/\ isBinary
        /\ ~input.hasBin
        /\ pc = "done"
        /\ idx >= 1
        /\ Len(doc) >= 1
        /\ doc[1].ByteLength \in 1..QuotaMaxMemoryAllocation
        /\ doc[1].URI # <<>>) =>
           IF IsEmbeddedResource(doc[1].URI)
           THEN marshalData(doc[1].URI).err = "nil"
                   => doc[1].Data = marshalData(doc[1].URI).data
           ELSE validateBufferURI(doc[1].URI) = "nil" => Called(doc[1].URI)

\* C15: when the callback returned a stream for a buffer and Decode
\* succeeded, the stream held at least byteLength bytes and the buffer's
\* Data is the first byteLength bytes of the stream, however the stream
\* split them into reads.
C15_StreamRead ==
    \A j \in 1..Len(cbResults) :
        LET r == cbResults[j]
            b == doc[r.buffer]
        IN  (r.kind = "stream" /\ pc = "done" /\ err = "nil") =>
                /\ Len(r.data) >= b.ByteLength
                /\ b.Data = SubSeq(r.data, 1, b.ByteLength)

\* C17: after a successful Decode every buffer's Data is empty or has
\* exactly byteLength bytes, and so no more than MaxMemoryAllocation.
C17_PayloadLength ==
    (pc = "done" /\ err = "nil") =>
        \A k \in 1..Len(doc) :
            \/ doc[k].Data = <<>>
            \/ /\ Len(doc[k].Data) = doc[k].ByteLength
               /\ Len(doc[k].Data) <= QuotaMaxMemoryAllocation

\* C18: buffer resolution never crashes: for every URI that starts with the
\* base64 marker, the marker alone included, it ends with a payload or an
\* error value.
C18_NoCrash == pc # "panic"

\* C19: in a binary container whose header describes its layout, once the
\* JSON tree is decoded exactly 20 + chunkLength bytes are consumed, so the
\* chunk header of the binary chunk is read from the first byte after the
\* JSON chunk, whatever padding the chunk holds and however the JSON parser
\* buffers its reads.
C19_PositionAfterJSON ==
    (/\ isBinary
     /\ pc = "binary"
     /\ input.chunkLength = U32(input.jsonLen + input.pad)
     /\ input.length = U32(LayoutLen(input))) =>
        /\ U32(pos - HeaderSize) = input.chunkLength
        /\ pos = BinStart(input)

---------------------------------------------------------------------------
(* The extension registry under concurrent callers (struct.go).            *)
(*                                                                         *)
(* extIn gives each goroutine its call: a decode of a document, which      *)
(* looks up each key of its extensions object in the registry, or a call   *)
(* of RegisterExtension.  extOut is the position of each goroutine.  The   *)
(* registry is a plain map without a lock, so a lookup and an assignment   *)
(* each take a step to begin and a step to end, and the goroutines         *)
(* interleave freely.  A lookup that overlapped an assignment is a data    *)
(* race: it yields any factory, none, or the runtime's fatal error.        *)

\* Extensions.UnmarshalJSON, line 698: extensions[key] begins
LookupBegin ==
    /\ \A q \in DOMAIN extOut : extOut[q].pc # "fatal"
    /\ \E p \in DOMAIN extOut :
          /\ extIn[p].role = "decode"
          /\ extOut[p].pc = "idle"
          /\ extOut[p].k <= Len(extIn[p].keys)
          /\ extOut' = [extOut EXCEPT
                           ![p].pc = "lookup",
                           ![p].raced = \E q \in DOMAIN extOut :
                                           extOut[q].pc = "write"]
    /\ UNCHANGED <<extensions, extIn, decVars, camVars, nodeVars>>

\* Extensions.UnmarshalJSON, lines 698-709: the lookup ends and the value
\* of the key is stored in the document's own map
LookupEnd ==
    /\ \A q \in DOMAIN extOut : extOut[q].pc # "fatal"
    /\ \E p \in DOMAIN extOut :
          /\ extOut[p].pc = "lookup"
          /\ \E f \in IF extOut[p].raced
                      THEN FactoryKinds \cup {"none", "fatal"}
                      ELSE { extensions[extIn[p].keys[extOut[p].k]] } :
                extOut' = [extOut EXCEPT
                              ![p].pc = IF f = "fatal" THEN "fatal" ELSE "idle",
                              ![p].k = @ + 1,
                              ![p].got = Append(@, f)]
    /\ UNCHANGED <<extensions, extIn, decVars, camVars, nodeVars>>

\* RegisterExtension, line 688: extensions[key] = f begins
RegisterBegin ==
    /\ \A q \in DOMAIN extOut : extOut[q].pc # "fatal"
    /\ \E p \in DOMAIN extOut :
          /\ extIn[p].role = "register"
          /\ extOut[p].pc = "idle"
          /\ extOut' = [q \in DOMAIN extOut |->
                           IF q = p THEN [extOut[q] EXCEPT !.pc = "write"]
                           ELSE IF extOut[q].pc = "lookup"
                           THEN [extOut[q] EXCEPT !.raced = TRUE]
                           ELSE extOut[q]]
    /\ UNCHANGED <<extensions, extIn, decVars, camVars, nodeVars>>

\* RegisterExtension, line 688: the assignment ends
RegisterEnd ==
    /\ \A q \in DOMAIN extOut : extOut[q].pc # "fatal"
    /\ \E p \in DOMAIN extOut :
          /\ extOut[p].pc = "write"
          /\ extensions' = [extensions EXCEPT ![extIn[p].key] = extIn[p].f]
          /\ extOut' = [extOut EXCEPT ![p].pc = "done"]
    /\ UNCHANGED <<extIn, decVars, camVars, nodeVars>>

\* Two decodes of different documents and two late registrations
InitRace ==
    /\ extensions = [k \in ExtKeys |-> "none"]
    /\ \E keys \in SeqsUpTo(ExtKeys, MaxMembers) \ {<<>>},
          key \in ExtKeys, f \in FactoryKinds :
          extIn = [p \in {"decode1", "decode2", "register1", "register2"} |->
                      CASE p = "decode1" ->
                             [role |-> "decode", keys |-> keys,
                              key |-> "", f |-> ""]
                        [] p = "decode2" ->
                             [role |-> "decode", keys |-> <<"XYZ_foo">>,
                              key |-> "", f |-> ""]
                        [] p = "register1" ->
                             [role |-> "register", keys |-> <<>>,
                              key |-> key, f |-> f]
                        [] p = "register2" ->
                             [role |-> "register", keys |-> <<>>,
                              key |-> "XYZ_foo", f |-> "object"]]
    /\ extOut = [p \in {"decode1", "decode2", "register1", "register2"} |->
                    [pc |-> "idle", k |-> 1, raced |-> FALSE, got |-> <<>>]]
    /\ DecIdle /\ CamIdle /\ NodeIdle

NextRace == LookupBegin \/ LookupEnd \/ RegisterBegin \/ RegisterEnd

SpecRace == InitRace /\ [][NextRace]_vars

\* C16: with decodes of different documents running concurrently and
\* RegisterExtension called late, no assignment to the registry overlaps a
\* lookup or another assignment, and a step of a decode leaves the registry
\* as it was.
C16_RegistryExclusion ==
    /\ [](\A p, q \in DOMAIN extOut :
             (p # q /\ extOut[p].pc = "write")
                => extOut[q].pc \notin {"lookup", "write"})
    /\ [][(LookupBegin \/ LookupEnd) => extensions' = extensions]_vars

====
